---- MODULE Spec2Model ----
(***************************************************************************)
(* Model of the dependency-graph core of cobol-analyzer:                   *)
(*   src/cobol_analyzer.py   ProgramInfo, COBOLAnalyzer.analyze, main      *)
(*   src/graph_visualizer.py DependencyGraphGenerator                      *)
(* The networkx DiGraph is modelled by what the calls made on it do:       *)
(* add_node merges the passed attributes into the node's attribute dict,   *)
(* add_edge keys an edge by the ordered pair (u, v) and merges attributes. *)
(***************************************************************************)
EXTENDS Integers, Sequences, FiniteSets, TLC

\* ------------------------------------------------------------------ bounds
MaxFacts == 2           \* longest analyzer list of the general specification
MaxBuilds == 2          \* executions of build_graph's body per generator

\* ------------------------------------------------- program constants
MaxCyclesShown == 5     \* main prints cycles[:5]

\* ------------------------------------------------------------- input names
None == "<None>"                         \* ProgramInfo.program_id default
NameOrder == <<"A", "B", "C", "F", "P1.cbl", "P2.cbl", "P3.cbl", "P4.cbl">>
FileNameOf(i) == NameOrder[4 + i]        \* Path(file_path).name of the i-th file
LinesOf(i) == IF i = 1 THEN 10 ELSE IF i = 2 THEN 50 ELSE 10 * i
Ord(n) == CHOOSE k \in 1..Len(NameOrder) : NameOrder[k] = n

ProgramIds == {"A", "B"}
CallLists == {<<>>, <<"A">>, <<"B">>, <<"A", "B">>}
FileLists == {<<>>, <<"A">>, <<"F">>}

\* ProgramInfo after COBOLAnalyzer.__init__ and analyze(): a failed read
\* leaves every field at its default, a source without PROGRAM-ID leaves
\* program_id None
ProgramInfo(pid, i, calls, files) ==
    [program_id |-> pid, file_name |-> FileNameOf(i), lines_of_code |-> LinesOf(i),
     calls |-> calls, files_used |-> files]

FailedRead(i) ==
    [program_id |-> None, file_name |-> FileNameOf(i), lines_of_code |-> 0,
     calls |-> <<>>, files_used |-> <<>>]

\* what analyze() leaves in the i-th analyzer's info, by the file's content:
\* a program A or B with any of the call and file lists, a source without
\* PROGRAM-ID, or a file that could not be read
Contents ==
    { [program_id |-> pid, calls |-> c, files_used |-> f, read |-> TRUE] :
        pid \in ProgramIds, c \in CallLists, f \in FileLists }
        \cup { [program_id |-> None, calls |-> c, files_used |-> c, read |-> TRUE] :
                 c \in {<<>>, <<"A">>} }
        \cup {[program_id |-> None, calls |-> <<>>, files_used |-> <<>>, read |-> FALSE]}

InfoAt(content, i) ==
    IF content.read
    THEN ProgramInfo(content.program_id, i, content.calls, content.files_used)
    ELSE FailedRead(i)

\* three analyzed programs A, B, C with arbitrary call lists among them,
\* optionally followed by a fourth file that repeats one of the program ids
CycCallLists ==
    {<<>>, <<"A">>, <<"B">>, <<"C">>, <<"A", "B">>, <<"A", "C">>, <<"B", "C">>,
     <<"A", "B", "C">>}
CycBatches ==
    LET base == { <<ProgramInfo("A", 1, a, <<>>), ProgramInfo("B", 2, b, <<>>),
                    ProgramInfo("C", 3, c, <<>>)>> :
                    a \in CycCallLists, b \in CycCallLists, c \in CycCallLists }
        extra == { ProgramInfo(p, 4, c, <<>>) : p \in {"A", "C"}, c \in {<<"A">>, <<"B", "C">>} }
    IN  base \cup { Append(b, x) : b \in base, x \in extra }

\* ------------------------------------------------------------ nx.DiGraph
NoAttr == <<>>
EmptyGraph == [nodes |-> <<>>, edges |-> <<>>]

\* G.add_node(n, **attrs): creates n or updates the attributes passed
add_node(G, n, node_type, loc, file) ==
    LET old == IF n \in DOMAIN G.nodes THEN G.nodes[n]
               ELSE [node_type |-> node_type, loc |-> NoAttr, file |-> NoAttr]
        new == [node_type |-> node_type,
                loc  |-> IF loc # NoAttr THEN loc ELSE old.loc,
                file |-> IF file # NoAttr THEN file ELSE old.file]
    IN  [G EXCEPT !.nodes = [m \in (DOMAIN G.nodes) \cup {n} |->
                                IF m = n THEN new ELSE G.nodes[m]]]

\* G.add_edge(u, v, edge_type=t): one edge per ordered pair, attributes updated
add_edge(G, u, v, edge_type) ==
    [G EXCEPT !.edges = [e \in (DOMAIN G.edges) \cup {<<u, v>>} |->
                            IF e = <<u, v>> THEN edge_type ELSE G.edges[e]]]

\* ------------------------------------------------- DependencyGraphGenerator
\* builds counts the executions of build_graph's body, ret is the value the
\* last call returned (build_graph and export_dot return None)
VARIABLES analyzers, graph, program_nodes, file_nodes, call_edges, file_edges,
          builds, ret

vars == <<analyzers, graph, program_nodes, file_nodes, call_edges, file_edges,
          builds, ret>>

Range(s) == { s[i] : i \in 1..Len(s) }

\* the generator's mutable fields as one value
Fields ==
    [graph |-> graph, program_nodes |-> program_nodes, file_nodes |-> file_nodes,
     call_edges |-> call_edges, file_edges |-> file_edges]

\* __init__
NewFields ==
    [graph |-> EmptyGraph, program_nodes |-> {}, file_nodes |-> {},
     call_edges |-> <<>>, file_edges |-> <<>>]

\* program_id = info.program_id or info.file_name
program_id_of(info) ==
    IF info.program_id # None THEN info.program_id ELSE info.file_name

\* variant: the program is recorded in program_nodes under its file name
add_program_node_by_file_name(S, info) ==
    LET program_id == program_id_of(info)
    IN  [S EXCEPT !.program_nodes = @ \cup {info.file_name},
                  !.graph = add_node(@, program_id, "program",
                                     <<info.lines_of_code>>, <<info.file_name>>)]

\* the "Add program node" statements of build_graph
add_program_node(S, info) ==
    LET program_id == program_id_of(info)
    IN  [S EXCEPT !.program_nodes = @ \cup {program_id},
                  !.graph = add_node(@, program_id, "program",
                                     <<info.lines_of_code>>, <<info.file_name>>)]

\* for called_program in info.calls
RECURSIVE add_call_edges(_, _, _)
add_call_edges(S, program_id, calls) ==
    IF calls = <<>> THEN S
    ELSE LET called_program == Head(calls)
             S1 == [S EXCEPT !.call_edges = Append(@, <<program_id, called_program>>),
                             !.graph = add_edge(add_node(@, called_program, "program",
                                                         NoAttr, NoAttr),
                                                program_id, called_program, "calls")]
         IN  add_call_edges(S1, program_id, Tail(calls))

\* for file_name in info.files_used
RECURSIVE add_file_edges(_, _, _)
add_file_edges(S, program_id, files_used) ==
    IF files_used = <<>> THEN S
    ELSE LET file_name == Head(files_used)
             S1 == [S EXCEPT !.file_nodes = @ \cup {file_name},
                             !.file_edges = Append(@, <<program_id, file_name>>),
                             !.graph = add_edge(add_node(@, file_name, "file",
                                                         NoAttr, NoAttr),
                                                program_id, file_name, "uses")]
         IN  add_file_edges(S1, program_id, Tail(files_used))

\* one iteration of "for analyzer in self.analyzers"
ingest(S, info) ==
    LET program_id == program_id_of(info)
    IN  add_file_edges(add_call_edges(add_program_node(S, info), program_id, info.calls),
                       program_id, info.files_used)

\* build_graph
RECURSIVE build_graph(_, _)
build_graph(S, infos) ==
    IF infos = <<>> THEN S ELSE build_graph(ingest(S, Head(infos)), Tail(infos))

\* variant: the emptiness test looks at the edges instead of the nodes
NeedsBuild_no_edges(S) == DOMAIN S.graph.edges = {}

\* if not self.graph.nodes(): self.build_graph()
NeedsBuild(S) == DOMAIN S.graph.nodes = {}

\* variant: the build runs without the emptiness test
lazy_build_unguarded(S, infos) == build_graph(S, infos)

lazy_build(S, infos) == IF NeedsBuild(S) THEN build_graph(S, infos) ELSE S

\* ---------------------------------------------------------- get_statistics
\* nx.isolates: nodes of degree zero (no in-edge, no out-edge, no self-loop)
isolates(G) ==
    { n \in DOMAIN G.nodes : \A e \in DOMAIN G.edges : e[1] # n /\ e[2] # n }

RECURSIVE Closure(_, _)
Closure(E, R) ==
    LET R2 == R \cup UNION { { <<e[1], f[2]>> : f \in { g \in E : g[1] = e[2] } } : e \in R }
    IN  IF R2 = R THEN R ELSE Closure(E, R2)

\* nx.number_strongly_connected_components
number_strongly_connected_components(G) ==
    LET N == DOMAIN G.nodes
        R == Closure(DOMAIN G.edges, DOMAIN G.edges)
        Comp(n) == {n} \cup { m \in N : <<n, m>> \in R /\ <<m, n>> \in R }
    IN  Cardinality({ Comp(n) : n \in N })

statistics(S) ==
    [total_nodes |-> Cardinality(DOMAIN S.graph.nodes),
     program_nodes |-> Cardinality(S.program_nodes),
     file_nodes |-> Cardinality(S.file_nodes),
     total_edges |-> Cardinality(DOMAIN S.graph.edges),
     call_edges |-> Len(S.call_edges),
     file_edges |-> Len(S.file_edges),
     isolated_programs |-> Cardinality(isolates(S.graph)),
     strongly_connected_components |-> number_strongly_connected_components(S.graph)]

\* ----------------------------------------------- find_circular_dependencies
\* variant: a call of a program to itself is left out of program_graph
program_graph_edges_no_self_call(S) ==
    { e \in Range(S.call_edges) :
        e[1] \in S.program_nodes /\ e[2] \in S.program_nodes /\ e[1] # e[2] }

\* program_graph: a DiGraph over program_nodes with the call edges whose two
\* endpoints are in program_nodes
program_graph_edges(S) ==
    { e \in Range(S.call_edges) : e[1] \in S.program_nodes /\ e[2] \in S.program_nodes }

RECURSIVE SortedSeq(_)
SortedSeq(N) ==
    IF N = {} THEN <<>>
    ELSE LET m == CHOOSE x \in N : \A y \in N : Ord(x) <= Ord(y)
         IN  <<m>> \o SortedSeq(N \ {m})

Successors(E, v) == SortedSeq({ e[2] : e \in { f \in E : f[1] = v } })

\* the elementary circuits that start at s and stay on nodes not before s
RECURSIVE circuits(_, _, _, _)
circuits(E, s, path, todo) ==
    IF todo = <<>> THEN <<>>
    ELSE LET w == Head(todo)
             here == IF w = s THEN <<path>>
                     ELSE IF Ord(w) > Ord(s) /\ w \notin Range(path)
                          THEN circuits(E, s, Append(path, w), Successors(E, w))
                          ELSE <<>>
         IN  here \o circuits(E, s, path, Tail(todo))

RECURSIVE circuits_from(_, _)
circuits_from(E, starts) ==
    IF starts = <<>> THEN <<>>
    ELSE circuits(E, Head(starts), <<Head(starts)>>, Successors(E, Head(starts)))
             \o circuits_from(E, Tail(starts))

\* list(nx.simple_cycles(program_graph))
simple_cycles(N, E) == circuits_from(E, SortedSeq(N))

find_circular_dependencies(S) == simple_cycles(S.program_nodes, program_graph_edges(S))

\* ------------------------------------------------------------------ actions
SetFields(S) ==
    /\ graph' = S.graph
    /\ program_nodes' = S.program_nodes
    /\ file_nodes' = S.file_nodes
    /\ call_edges' = S.call_edges
    /\ file_edges' = S.file_edges

\* a lazy build runs build_graph's body; MaxBuilds caps the executions
CanCall == NeedsBuild(Fields) => builds < MaxBuilds
BuildsAfterLazy == IF NeedsBuild(Fields) THEN builds + 1 ELSE builds

\* grapher.build_graph()
BuildGraph ==
    /\ builds < MaxBuilds
    /\ SetFields(build_graph(Fields, analyzers))
    /\ builds' = builds + 1
    /\ ret' = [op |-> "none"]
    /\ UNCHANGED analyzers

\* grapher.get_statistics()
GetStatistics ==
    /\ CanCall
    /\ LET S == lazy_build(Fields, analyzers)
       IN  /\ SetFields(S)
           /\ ret' = [op |-> "get_statistics", stats |-> statistics(S)]
    /\ builds' = BuildsAfterLazy
    /\ UNCHANGED analyzers

\* grapher.find_circular_dependencies()
FindCircularDependencies ==
    /\ CanCall
    /\ LET S == lazy_build(Fields, analyzers)
       IN  /\ SetFields(S)
           /\ ret' = [op |-> "find_circular_dependencies",
                      cycles |-> find_circular_dependencies(S)]
    /\ builds' = BuildsAfterLazy
    /\ UNCHANGED analyzers

\* grapher.export_dot(): writes the graph to a file
ExportDot ==
    /\ CanCall
    /\ SetFields(lazy_build(Fields, analyzers))
    /\ ret' = [op |-> "none"]
    /\ builds' = BuildsAfterLazy
    /\ UNCHANGED analyzers

\* grapher.generate_visualization(output_path, style): every style only
\* draws from the fields
GenerateVisualization ==
    /\ CanCall
    /\ SetFields(lazy_build(Fields, analyzers))
    /\ ret' = [op |-> "generate_visualization"]
    /\ builds' = BuildsAfterLazy
    /\ UNCHANGED analyzers

InitFields ==
    /\ graph = NewFields.graph
    /\ program_nodes = NewFields.program_nodes
    /\ file_nodes = NewFields.file_nodes
    /\ call_edges = NewFields.call_edges
    /\ file_edges = NewFields.file_edges
    /\ builds = 0
    /\ ret = [op |-> "none"]

\* DependencyGraphGenerator(analyzers) over any analyzer list
Init ==
    /\ \E n \in 0..MaxFacts :
          \E contents \in [1..n -> Contents] :
              analyzers = [i \in 1..n |-> InfoAt(contents[i], i)]
    /\ InitFields

Next ==
    \/ BuildGraph
    \/ GetStatistics
    \/ FindCircularDependencies
    \/ ExportDot
    \/ GenerateVisualization

Spec == Init /\ [][Next]_vars

\* the generator over three programs calling each other
InitCyc ==
    /\ analyzers \in CycBatches
    /\ InitFields

SpecCyc == InitCyc /\ [][Next]_vars

\* ------------------------------------------------------ claim vocabulary
Built == builds >= 1

\* node ids with their kind, and (source, target, kind) edges
Shape(G) ==
    [kinds |-> { <<n, G.nodes[n].node_type>> : n \in DOMAIN G.nodes },
     edges |-> { <<e[1], e[2], G.edges[e]>> : e \in DOMAIN G.edges }]

Orders(n) == { f \in [1..n -> 1..n] : \A i, j \in 1..n : f[i] = f[j] => i = j }
Reorder(infos, f) == [i \in 1..Len(infos) |-> infos[f[i]]]

WellFormed(info) == info.program_id # None

\* first position of a program id in the analyzer list
FirstOf(p) ==
    CHOOSE i \in 1..Len(analyzers) :
        /\ analyzers[i].program_id = p
        /\ \A k \in 1..(i - 1) : analyzers[k].program_id # p

AnalyzedIds == { program_id_of(analyzers[i]) : i \in 1..Len(analyzers) }

\* the Calls edges the facts state
FactCallEdges ==
    UNION { { <<program_id_of(analyzers[i]), t>> : t \in Range(analyzers[i].calls) } :
              i \in 1..Len(analyzers) }
FactFileEdges ==
    UNION { { <<program_id_of(analyzers[i]), t>> : t \in Range(analyzers[i].files_used) } :
              i \in 1..Len(analyzers) }

\* ---------------------------------------------------------------- claims

\* C1: with two facts of one program id and different line counts, the node
\* keeps the line count and source file name of the first fact
C1_KeepFirst ==
    Built =>
        \A i, j \in 1..Len(analyzers) :
            ( /\ i < j
              /\ WellFormed(analyzers[i])
              /\ analyzers[i].program_id = analyzers[j].program_id
              /\ analyzers[i].lines_of_code # analyzers[j].lines_of_code )
            => LET p == analyzers[i].program_id
                   first == analyzers[FirstOf(p)]
               IN  /\ graph.nodes[p].loc = <<first.lines_of_code>>
                   /\ graph.nodes[p].file = <<first.file_name>>

\* C2: every permutation of the batch builds the same node ids with the same
\* kinds and the same (source, target, kind) edges
C2_OrderIndependent ==
    Built =>
        \A f \in Orders(Len(analyzers)) :
            Shape(build_graph(NewFields, Reorder(analyzers, f)).graph) = Shape(graph)

\* C3: the recorded call and file edges hold each triple at most once, so the
\* call_edges and file_edges counts of get_statistics are the numbers of
\* distinct triples
C3_NoEdgeMultiplicity ==
    (ret.op = "get_statistics" /\ builds = 1) =>
        /\ ret.stats.call_edges = Cardinality(Range(call_edges))
        /\ ret.stats.file_edges = Cardinality(Range(file_edges))

\* C4: a fact without program id adds no node and no edge, the other facts
\* of the batch are ingested as if it were absent
C4_MalformedRejected ==
    Built =>
        LET kept == build_graph(NewFields, SelectSeq(analyzers, WellFormed))
        IN  /\ Shape(graph) = Shape(kept.graph)
            /\ program_nodes = kept.program_nodes

\* C5: a call target that is no fact's program id is a Program node without
\* line count and source file name, reached by a Calls edge; an analyzed
\* call target keeps its metadata
C5_Phantom ==
    Built =>
        \A i \in 1..Len(analyzers) :
            \A X \in Range(analyzers[i].calls) :
                LET A == program_id_of(analyzers[i])
                IN  /\ X \in DOMAIN graph.nodes
                    /\ <<A, X>> \in DOMAIN graph.edges
                    /\ graph.edges[<<A, X>>] = "calls"
                    /\ graph.nodes[X].node_type = "program"
                    /\ X \notin AnalyzedIds =>
                          graph.nodes[X].loc = NoAttr /\ graph.nodes[X].file = NoAttr
                    /\ X \in AnalyzedIds =>
                          graph.nodes[X].loc # NoAttr /\ graph.nodes[X].file # NoAttr

\* ------------------------------------------------- elementary cycles
\* nodes that can lie on a cycle of the edge set E
CycleNodes(E) == { e[1] : e \in E } \cap { e[2] : e \in E }

RECURSIVE SeqsUpTo(_, _)
SeqsUpTo(N, k) ==
    IF k = 0 THEN {<<>>}
    ELSE LET shorter == SeqsUpTo(N, k - 1)
         IN  shorter \cup { Append(p, n) : p \in { q \in shorter : Len(q) = k - 1 }, n \in N }

\* v1..vk distinct, with an edge from each vi to the next and from vk to v1
IsElementaryCycle(p, E) ==
    /\ Len(p) >= 1
    /\ \A i, j \in 1..Len(p) : p[i] = p[j] => i = j
    /\ \A i \in 1..Len(p) : <<p[i], p[(i % Len(p)) + 1]>> \in E

ElementaryCycles(E) ==
    { p \in SeqsUpTo(CycleNodes(E), Cardinality(CycleNodes(E))) : IsElementaryCycle(p, E) }

Rotate(p, k) == [i \in 1..Len(p) |-> p[((i + k - 1) % Len(p)) + 1]]
Rotations(p) == { Rotate(p, k) : k \in 0..(Len(p) - 1) }

\* elementary cycles of E counted up to rotation
NumElementaryCycles(E) == Cardinality({ Rotations(p) : p \in ElementaryCycles(E) })

Scenario ==
    <<ProgramInfo("A", 1, <<"B", "C">>, <<>>), ProgramInfo("B", 2, <<"C">>, <<>>),
      ProgramInfo("C", 3, <<"A">>, <<>>)>>
Acyclic ==
    <<ProgramInfo("A", 1, <<"B">>, <<>>), ProgramInfo("B", 2, <<"C">>, <<>>),
      ProgramInfo("C", 3, <<>>, <<>>)>>

\* C6: find_circular_dependencies returns elementary cycles of the call
\* edges only, and every elementary cycle exactly once up to rotation; the
\* scenario A calls [B,C], B calls [C], C calls [A] gives the two cycles
\* {A,C} and {A,B,C}, and A calls B, B calls C gives none
C6_CyclesExactlyOnce ==
    ret.op = "find_circular_dependencies" =>
        /\ \A i \in 1..Len(ret.cycles) : IsElementaryCycle(ret.cycles[i], FactCallEdges)
        /\ \A c \in ElementaryCycles(FactCallEdges) :
              Cardinality({ i \in 1..Len(ret.cycles) : ret.cycles[i] \in Rotations(c) }) = 1
        /\ analyzers = Scenario =>
              /\ Len(ret.cycles) = 2
              /\ { Range(ret.cycles[i]) : i \in 1..2 } = {{"A", "C"}, {"A", "B", "C"}}
        /\ analyzers = Acyclic => ret.cycles = <<>>

C6_Witness ==
    /\ ret.op = "find_circular_dependencies"
    /\ analyzers = Scenario
    /\ Len(ret.cycles) = 2

\* C7: with more elementary cycles than the cap, the search returns exactly
\* cap cycles
C7_Truncation ==
    ( /\ ret.op = "find_circular_dependencies"
      /\ NumElementaryCycles(FactCallEdges) > MaxCyclesShown )
    => Len(ret.cycles) = MaxCyclesShown

\* C8: a program whose facts have no calls and no files and that no other
\* program's fact calls is isolated and counted by get_statistics
IsolatedByFacts ==
    { p \in AnalyzedIds :
        /\ \A i \in 1..Len(analyzers) :
              program_id_of(analyzers[i]) = p =>
                  analyzers[i].calls = <<>> /\ analyzers[i].files_used = <<>>
        /\ \A i \in 1..Len(analyzers) :
              program_id_of(analyzers[i]) # p => p \notin Range(analyzers[i].calls) }

C8_Isolation ==
    ret.op = "get_statistics" =>
        /\ IsolatedByFacts \subseteq isolates(graph)
        /\ ret.stats.isolated_programs >= Cardinality(IsolatedByFacts)

\* C9 as stated: in every state, built or not, get_statistics leaves the
\* graph and the node and edge collections unchanged
UnchangedFields == UNCHANGED <<graph, program_nodes, file_nodes, call_edges, file_edges>>

C9_NeverMutates == [][GetStatistics => UnchangedFields]_vars

\* C9 amended: once the graph has a node get_statistics leaves the graph and
\* the node and edge collections unchanged, and a call that follows a call
\* returns the same record
C9_NoMutationOnceBuilt ==
    [][GetStatistics =>
          /\ ~NeedsBuild(Fields) => UnchangedFields
          /\ ret.op = "get_statistics" => ret'.stats = ret.stats]_vars

C9_Witness ==
    /\ ret.op = "get_statistics"
    /\ ~NeedsBuild(Fields)
    /\ builds = 1
    /\ Len(call_edges) >= 1

\* C10: a File node has no outgoing edge, and no id is both a program id and
\* a file id
C10_FileNoOutEdge ==
    Built =>
        /\ \A n \in DOMAIN graph.nodes :
              graph.nodes[n].node_type = "file" =>
                  \A e \in DOMAIN graph.edges : e[1] # n
        /\ program_nodes \cap file_nodes = {}

\* C11: an edge is the triple (source, target, kind): the stored edges are
\* the Calls and UsesFile entries of the facts, each with its own kind, and
\* the total edge count of get_statistics is the Calls count plus the
\* UsesFile count
FactEdgeTriples ==
    { <<e[1], e[2], "calls">> : e \in FactCallEdges }
        \cup { <<e[1], e[2], "uses">> : e \in FactFileEdges }

C11_EdgeIdentity ==
    (ret.op = "get_statistics" /\ builds = 1) =>
        /\ Shape(graph).edges = FactEdgeTriples
        /\ ret.stats.total_edges = ret.stats.call_edges + ret.stats.file_edges

\* C12: build_graph run twice or more leaves the nodes, the edges, the
\* call_edges and file_edges contents and the statistics of a single run
C12_RebuildIdempotent ==
    builds >= 2 =>
        LET once == build_graph(NewFields, analyzers)
        IN  /\ graph = once.graph
            /\ program_nodes = once.program_nodes
            /\ file_nodes = once.file_nodes
            /\ call_edges = once.call_edges
            /\ file_edges = once.file_edges
            /\ statistics(Fields) = statistics(once)

\* C13: the Program count of get_statistics is the number of nodes of kind
\* Program, phantom call targets included, the File count is the number of
\* nodes of kind File, and the total is their sum
NodesOfKind(G, kind) == { n \in DOMAIN G.nodes : G.nodes[n].node_type = kind }

C13_KindCounts ==
    ret.op = "get_statistics" =>
        /\ ret.stats.program_nodes = Cardinality(NodesOfKind(graph, "program"))
        /\ ret.stats.file_nodes = Cardinality(NodesOfKind(graph, "file"))
        /\ ret.stats.total_nodes = ret.stats.program_nodes + ret.stats.file_nodes

\* C14: on a generator with a non-empty analyzer list the calls of
\* get_statistics, find_circular_dependencies, export_dot and
\* generate_visualization run build_graph's body once, when nothing is built
\* yet, and never again: the first of them leaves one execution, the later
\* ones leave the fields as they are, and a step that changes the fields of
\* a built generator is an explicit build_graph call
LazyCall == GetStatistics \/ FindCircularDependencies \/ ExportDot \/ GenerateVisualization

C14_LazyBuildOnce ==
    [][Len(analyzers) > 0 =>
          /\ LazyCall =>
                /\ builds' = (IF builds = 0 THEN 1 ELSE builds)
                /\ Built => UnchangedFields
          /\ (Built /\ ~UnchangedFields) => (BuildGraph /\ builds' = builds + 1)]_vars

C14_Witness ==
    /\ Len(analyzers) > 0
    /\ builds = 1
    /\ ret.op = "generate_visualization"
    /\ DOMAIN graph.edges = {}

\* C15: every recorded call edge starts at a node of program_nodes, so the
\* call edges find_circular_dependencies keeps (both endpoints in
\* program_nodes) have the elementary cycles of all recorded call edges
DroppedCallEdges == Range(call_edges) \ program_graph_edges(Fields)

C15_RestrictionLosesNoCycle ==
    Built =>
        /\ \A e \in Range(call_edges) : e[1] \in program_nodes
        /\ \A e \in DroppedCallEdges : e[2] \notin program_nodes
        /\ ElementaryCycles(program_graph_edges(Fields)) = ElementaryCycles(Range(call_edges))
        /\ { Rotations(c) : c \in Range(find_circular_dependencies(Fields)) }
              = { Rotations(c) : c \in ElementaryCycles(Range(call_edges)) }

C15_Witness ==
    /\ Built
    /\ DroppedCallEdges # {}
    /\ ElementaryCycles(Range(call_edges)) # {}

====
